---- MODULE Spec2Model ----
(***************************************************************************)
(* kwh-btc-iot: Merkle commitment engine (app/merkle.py), batch assembly   *)
(* (app/batching.py), SQLite storage (app/storage.py) and the HTTP         *)
(* handlers that drive them (app/main.py).                                 *)
(*                                                                         *)
(* Digests.  SHA-256 is an injective constructor (the collision-free       *)
(* idealisation): the 32 bytes of a digest are modelled as the sequence of *)
(* naturals that spells the hashed term in prefix notation.  A hex digest  *)
(* (HashHex, a str) is those bytes behind one element for the letter case  *)
(* of its spelling: hexdigest() writes lower case, bytes.fromhex() reads   *)
(* either case.                                                            *)
(***************************************************************************)
EXTENDS Integers, Sequences, FiniteSets, TLC

\* ------------------------------------------------------------------ bounds
MaxLeaves == 5

\* ----------------------------------------------------------- merkle.py
\* Tags that keep the three kinds of digest apart in the prefix notation.
ZeroTag == 0
LeafTag == 1
NodeTag == 2

\* Letter case of a hex spelling.
LowerHex == 0
UpperHex == 1

\* hashlib.sha256(data).hexdigest(): the digest of data, spelled in lower case.
sha256_hex(data) == <<LowerHex>> \o data

\* bytes.fromhex(h): the bytes that h spells, whatever its letter case.
fromhex(h) == Tail(h)

\* "0" * 64, the root of the empty leaf list.
ZeroRoot == <<LowerHex, ZeroTag>>

\* The canonical payloads a client can submit (ts_start is part of the payload).
Payloads ==
    { [ts_start |-> 1, energy_kwh |-> 1],
      [ts_start |-> 1, energy_kwh |-> 2],
      [ts_start |-> 2, energy_kwh |-> 1] }

\* sha256_hex(b"LOG::" + payload)
leaf_hash_from_payload(payload) ==
    sha256_hex(<<LeafTag, payload.ts_start, payload.energy_kwh>>)

\* sha256_hex(bytes.fromhex(left) + bytes.fromhex(right))
sha256_pair(left, right) == sha256_hex(<<NodeTag>> \o fromhex(left) \o fromhex(right))

\* A padding that repeats the first element of an odd level.
PadLevel_First(level) ==
    IF Len(level) % 2 = 1 THEN Append(level, level[1]) ELSE level

\* if len(level) % 2 == 1: level.append(level[-1])
PadLevel(level) ==
    IF Len(level) % 2 = 1 THEN Append(level, level[Len(level)]) ELSE level

\* A root builder that hashes each pair right || left.
RootNextLevel_Swapped(level) ==
    [k \in 1..(Len(level) \div 2) |-> sha256_pair(level[2 * k], level[2 * k - 1])]

\* Lexicographic order on digests.
RECURSIVE LexLeq(_, _)
LexLeq(a, b) ==
    IF a = <<>> THEN TRUE
    ELSE IF b = <<>> THEN FALSE
    ELSE IF a[1] # b[1] THEN a[1] < b[1]
    ELSE LexLeq(Tail(a), Tail(b))

\* A root builder that hashes each pair smaller digest first.
RootNextLevel_Sorted(level) ==
    [k \in 1..(Len(level) \div 2) |->
        IF LexLeq(level[2 * k - 1], level[2 * k])
        THEN sha256_pair(level[2 * k - 1], level[2 * k])
        ELSE sha256_pair(level[2 * k], level[2 * k - 1])]

\* for i in range(0, len(level), 2): next_level.append(sha256(level[i] + level[i+1]))
\* (level is 1-based here: the pair starting at python index 2(k-1) is level[2k-1], level[2k])
RootNextLevel(level) ==
    [k \in 1..(Len(level) \div 2) |-> sha256_pair(level[2 * k - 1], level[2 * k])]

RECURSIVE RootLoop(_)
RootLoop(level) ==
    IF Len(level) > 1 THEN RootLoop(RootNextLevel(PadLevel(level))) ELSE level[1]

\* A root that also commits to the number of leaves.
build_merkle_root_Counted(leaves) ==
    IF leaves = <<>> THEN ZeroRoot
    ELSE sha256_pair(sha256_hex(<<Len(leaves)>>), RootLoop(leaves))

build_merkle_root(leaves) ==
    IF leaves = <<>> THEN ZeroRoot ELSE RootLoop(leaves)

\* level = leaves[:]: the loop appends to its own copy, so the caller's list holds
\* after the call what it held before.
CallerListAfter(leaves) == leaves

\* A proof loop that names the tracked node's own side instead of its sibling's.
RECURSIVE ProofForLoop_OwnSide(_, _, _)
ProofForLoop_OwnSide(level, i, st) ==
    IF i >= Len(level) THEN st
    ELSE LET nl == Append(st.next_level, sha256_pair(level[i + 1], level[i + 2]))
         IN  IF i = st.idx \/ i + 1 = st.idx
             THEN ProofForLoop_OwnSide(level, i + 2,
                    [idx        |-> Len(nl) - 1,
                     proof      |-> Append(st.proof,
                                     IF st.idx = i
                                     THEN [position |-> "left", hash |-> level[i + 2]]
                                     ELSE [position |-> "right", hash |-> level[i + 1]]),
                     next_level |-> nl])
             ELSE ProofForLoop_OwnSide(level, i + 2, [st EXCEPT !.next_level = nl])

\* The inner for loop of build_merkle_proof, one iteration per call: i is the python
\* index of the pair's left element; st carries idx, proof and next_level.
RECURSIVE ProofForLoop(_, _, _)
ProofForLoop(level, i, st) ==
    IF i >= Len(level) THEN st
    ELSE LET left   == level[i + 1]
             right  == level[i + 2]
             parent == sha256_pair(left, right)
             nl     == Append(st.next_level, parent)
         IN  IF i = st.idx \/ i + 1 = st.idx
             THEN ProofForLoop(level, i + 2,
                    [idx        |-> Len(nl) - 1,
                     proof      |-> Append(st.proof,
                                     IF st.idx = i
                                     THEN [position |-> "right", hash |-> right]
                                     ELSE [position |-> "left", hash |-> left]),
                     next_level |-> nl])
             ELSE ProofForLoop(level, i + 2, [st EXCEPT !.next_level = nl])

RECURSIVE ProofLoop(_, _, _)
ProofLoop(level, idx, proof) ==
    IF Len(level) > 1
    THEN LET st == ProofForLoop(PadLevel(level), 0,
                       [idx |-> idx, proof |-> proof, next_level |-> <<>>])
         IN  ProofLoop(st.next_level, st.idx, st.proof)
    ELSE proof

\* A proof builder that checks the index against len(leaves) only.
build_merkle_proof_NoLowerCheck(leaves, index) ==
    IF index >= Len(leaves)
    THEN [raised |-> "IndexError", proof |-> <<>>]
    ELSE [raised |-> "none", proof |-> ProofLoop(leaves, index, <<>>)]

\* Result: raised = "IndexError" and no proof, or raised = "none" and the proof.
build_merkle_proof(leaves, index) ==
    IF index < 0 \/ index >= Len(leaves)
    THEN [raised |-> "IndexError", proof |-> <<>>]
    ELSE [raised |-> "none", proof |-> ProofLoop(leaves, index, <<>>)]

\* A verifier that takes every position other than "left" for "right".
RECURSIVE VerifyLoop_ElseRight(_, _, _)
VerifyLoop_ElseRight(current, proof, k) ==
    IF k > Len(proof) THEN [raised |-> "none", current |-> current]
    ELSE IF proof[k].position = "left"
    THEN VerifyLoop_ElseRight(sha256_pair(proof[k].hash, current), proof, k + 1)
    ELSE VerifyLoop_ElseRight(sha256_pair(current, proof[k].hash), proof, k + 1)

RECURSIVE VerifyLoop(_, _, _)
VerifyLoop(current, proof, k) ==
    IF k > Len(proof) THEN [raised |-> "none", current |-> current]
    ELSE LET position == proof[k].position
             sibling  == proof[k].hash
         IN  IF position = "left"
             THEN VerifyLoop(sha256_pair(sibling, current), proof, k + 1)
             ELSE IF position = "right"
             THEN VerifyLoop(sha256_pair(current, sibling), proof, k + 1)
             ELSE [raised |-> "ValueError", current |-> current]

\* Result: "True", "False", or "ValueError" (invalid proof position).
verify_merkle_proof(leaf, root, proof) ==
    LET r == VerifyLoop(leaf, proof, 1)
    IN  IF r.raised # "none" THEN "ValueError"
        ELSE IF r.current = root THEN "True" ELSE "False"

\* ------------------------------------------------------------- state
VARIABLES
    leaves, index, merkle_out,   \* the engine on its own: inputs and what it returned
    verdict,                     \* verify_proof.py: the document it was given, its answer
    energy_logs,                 \* table energy_logs, in rowid (insertion) order
    energy_batches,              \* table energy_batches: id -> row
    now,                         \* the wall clock, in ticks
    flush_pc, flush_local,       \* each flush request: its position and its locals
    proof_pc, proof_local,       \* the proof request: its position and its locals
    anchor_local,                \* the anchor request: its position and its locals
    resp                         \* the response of the handler that returned last

mvars == <<leaves, index, merkle_out, verdict>>
sysvars == <<energy_logs, energy_batches, now, flush_pc, flush_local,
             proof_pc, proof_local, anchor_local, resp>>
vars == <<leaves, index, merkle_out, verdict, energy_logs, energy_batches, now,
          flush_pc, flush_local, proof_pc, proof_local, anchor_local, resp>>

\* ------------------------------------------------------------------ bounds
MaxLogs == 3
MaxNow == 2
\* Clock ticks per second: utcnow() is finer than the %S of the batch id.
TicksPerSecond == 2
\* Requests to POST /batches/flush that can be in flight together.
FlushWorkers == {"f1", "f2"}

\* Python None in an Optional[str] / Optional[int] / Optional[datetime] column.
NoneStr == "None"
NoneInt == -1

\* now.strftime("batch_%Y-%m-%dT%H-%M-%S"): the clock truncated to whole seconds.
strftime_batch_id(t) == t \div TicksPerSecond

BatchIds == { strftime_batch_id(t) : t \in 0..MaxNow }

\* ----------------------------------------------------------- storage.py
Min(S) == CHOOSE x \in S : \A y \in S : x <= y

\* ORDER BY ts_start ASC over rows scanned in rowid order: rows with equal ts_start
\* keep their scan order (no index on energy_logs but the primary key).
RECURSIVE OrderByTsStart(_)
OrderByTsStart(rows) ==
    IF rows = <<>> THEN <<>>
    ELSE LET m == Min({ rows[k].ts_start : k \in 1..Len(rows) })
         IN  SelectSeq(rows, LAMBDA r : r.ts_start = m)
               \o OrderByTsStart(SelectSeq(rows, LAMBDA r : r.ts_start # m))

\* A select WHERE batch_id = '', which no row satisfies.
get_unbatched_logs_EmptyString(logs) ==
    OrderByTsStart(SelectSeq(logs, LAMBDA r : FALSE))

\* A select that leaves out WHERE batch_id IS NULL.
get_unbatched_logs_NoWhere(logs) == OrderByTsStart(logs)

\* SELECT * FROM energy_logs WHERE batch_id IS NULL ORDER BY ts_start ASC
get_unbatched_logs(logs) ==
    OrderByTsStart(SelectSeq(logs, LAMBDA r : r.batch_id = NoneInt))

\* SELECT * FROM energy_logs WHERE batch_id = ? ORDER BY ts_start ASC
get_logs_by_batch(logs, batch_id) ==
    OrderByTsStart(SelectSeq(logs, LAMBDA r : r.batch_id = batch_id))

\* SELECT * FROM energy_logs WHERE id = ?  (<<>> when there is no such row)
get_log(logs, log_id) == SelectSeq(logs, LAMBDA r : r.id = log_id)

\* An update of every row WHERE batch_id IS NULL, whatever the id list.
set_batch_for_logs_AllUnbatched(logs, batch_id, log_ids) ==
    [k \in 1..Len(logs) |->
        IF logs[k].batch_id = NoneInt
        THEN [logs[k] EXCEPT !.batch_id = batch_id]
        ELSE logs[k]]

\* An update whose IN list misses the first id.
set_batch_for_logs_SkipFirst(logs, batch_id, log_ids) ==
    IF log_ids = <<>> THEN logs
    ELSE [k \in 1..Len(logs) |->
            IF \E j \in 2..Len(log_ids) : log_ids[j] = logs[k].id
            THEN [logs[k] EXCEPT !.batch_id = batch_id]
            ELSE logs[k]]

\* UPDATE energy_logs SET batch_id = ? WHERE id IN (...)
set_batch_for_logs(logs, batch_id, log_ids) ==
    IF log_ids = <<>> THEN logs
    ELSE [k \in 1..Len(logs) |->
            IF \E j \in 1..Len(log_ids) : log_ids[j] = logs[k].id
            THEN [logs[k] EXCEPT !.batch_id = batch_id]
            ELSE logs[k]]

\* The columns of energy_batches written for a batch (log_ids is not a column).
BatchRow(batch) ==
    [created_at          |-> batch.created_at,
     log_count           |-> batch.log_count,
     merkle_root         |-> batch.merkle_root,
     anchor_status       |-> batch.anchor_status,
     anchor_txid         |-> batch.anchor_txid,
     anchor_block_hash   |-> batch.anchor_block_hash,
     anchor_block_height |-> batch.anchor_block_height,
     anchor_block_time   |-> batch.anchor_block_time]

\* INSERT OR REPLACE INTO energy_batches: a row with the same id is replaced.
save_batch(batches, batch) == (batch.id :> BatchRow(batch)) @@ batches

\* _batch_from_row: log_ids is not read back.
batch_from_row(id, row) ==
    [id                  |-> id,
     created_at          |-> row.created_at,
     log_ids             |-> <<>>,
     merkle_root         |-> row.merkle_root,
     log_count           |-> row.log_count,
     anchor_status       |-> row.anchor_status,
     anchor_txid         |-> row.anchor_txid,
     anchor_block_hash   |-> row.anchor_block_hash,
     anchor_block_height |-> row.anchor_block_height,
     anchor_block_time   |-> row.anchor_block_time]

\* SELECT * FROM energy_batches WHERE id = ?  (<<>> when there is no such row)
get_batch(batches, batch_id) ==
    IF batch_id \in DOMAIN batches
    THEN << batch_from_row(batch_id, batches[batch_id]) >>
    ELSE <<>>

\* A store that keeps the anchor fields of a batch that is anchored already.
update_batch_anchor_KeepFirst(batches, batch_id, status, txid, block_hash, block_height, block_time) ==
    IF batch_id \in DOMAIN batches /\ batches[batch_id].anchor_status # "anchored"
    THEN [batches EXCEPT ![batch_id] =
            [@ EXCEPT !.anchor_status = status,
                      !.anchor_txid = txid,
                      !.anchor_block_hash = block_hash,
                      !.anchor_block_height = block_height,
                      !.anchor_block_time = block_time]]
    ELSE batches

\* UPDATE energy_batches SET anchor_... WHERE id = ?
update_batch_anchor(batches, batch_id, status, txid, block_hash, block_height, block_time) ==
    IF batch_id \in DOMAIN batches
    THEN [batches EXCEPT ![batch_id] =
            [@ EXCEPT !.anchor_status = status,
                      !.anchor_txid = txid,
                      !.anchor_block_hash = block_hash,
                      !.anchor_block_height = block_height,
                      !.anchor_block_time = block_time]]
    ELSE batches

\* SELECT * FROM energy_batches ORDER BY created_at DESC
RECURSIVE OrderByCreatedAtDesc(_, _)
OrderByCreatedAtDesc(batches, ids) ==
    IF ids = {} THEN <<>>
    ELSE LET newest == CHOOSE i \in ids :
                          \A j \in ids : batches[j].created_at <= batches[i].created_at
         IN  << batch_from_row(newest, batches[newest]) >>
               \o OrderByCreatedAtDesc(batches, ids \ {newest})

list_batches(batches) == OrderByCreatedAtDesc(batches, DOMAIN batches)

\* ------------------------------------------------- main.py, batching.py
\* A response: which handler returned and for which path parameter (log_id or
\* batch_id), the HTTP status and detail, the batches in the body (flush, anchor,
\* list) and the proof document (get_log_proof).
NoProof == [log_id |-> NoneInt, batch_id |-> NoneInt, leaf_hash |-> <<>>,
            merkle_root |-> <<>>, index |-> NoneInt, proof |-> <<>>]

Response(op, arg, status, detail, batches, proof) ==
    [op |-> op, arg |-> arg, status |-> status, detail |-> detail,
     batches |-> batches, proof |-> proof]

NoResponse == Response("none", NoneInt, 0, "", <<>>, NoProof)

NoBatch ==
    [id |-> NoneInt, created_at |-> NoneInt, log_ids |-> <<>>, merkle_root |-> <<>>,
     log_count |-> 0, anchor_status |-> "pending", anchor_txid |-> NoneStr,
     anchor_block_hash |-> NoneStr, anchor_block_height |-> NoneInt,
     anchor_block_time |-> NoneInt]

FlushIdle == [logs |-> <<>>, batch |-> NoBatch]
ProofIdle == [log_id |-> NoneInt, log_batch_id |-> NoneInt, log_leaf_hash |-> <<>>,
              batch_merkle_root |-> <<>>]

\* No anchor request has been made: body {} and no batch read.
AnchorIdle ==
    [pc       |-> "idle",
     batch_id |-> NoneInt,
     body     |-> [txid |-> NoneStr, block_hash |-> NoneStr, block_height |-> NoneInt],
     batch    |-> <<>>]

SysInit ==
    /\ energy_logs = <<>>
    /\ energy_batches = << >>
    /\ now = 0
    /\ flush_pc = [w \in FlushWorkers |-> "idle"]
    /\ flush_local = [w \in FlushWorkers |-> FlushIdle]
    /\ proof_pc = "idle"
    /\ proof_local = ProofIdle
    /\ anchor_local = AnchorIdle
    /\ resp = NoResponse

\* The wall clock advances.
Tick ==
    /\ now < MaxNow
    /\ now' = now + 1
    /\ UNCHANGED mvars
    /\ UNCHANGED anchor_local
    /\ UNCHANGED <<energy_logs, energy_batches, flush_pc, flush_local,
                   proof_pc, proof_local, resp>>

\* create_log, main.py:326-333: a fresh id, the leaf hash of the payload, no batch.
NewLog(logs, payload) ==
    [id         |-> Len(logs) + 1,
     ts_start   |-> payload.ts_start,
     energy_kwh |-> payload.energy_kwh,
     batch_id   |-> NoneInt,
     leaf_hash  |-> leaf_hash_from_payload(payload)]

\* POST /api/v1/logs: build the log, storage.save_log(log), return it.
create_log(payload) ==
    /\ Len(energy_logs) < MaxLogs
    /\ energy_logs' = Append(energy_logs, NewLog(energy_logs, payload))
    /\ resp' = Response("create_log", NoneInt, 200, "", <<>>, NoProof)
    /\ UNCHANGED mvars
    /\ UNCHANGED anchor_local
    /\ UNCHANGED <<energy_batches, now, flush_pc, flush_local, proof_pc, proof_local>>

\* batching.py:20-34: mint the id from the clock reading t, build the root and the
\* batch value over the selected logs.
NewBatch(logs, t) ==
    LET leaf_seq == [k \in 1..Len(logs) |-> logs[k].leaf_hash]
        log_ids  == [k \in 1..Len(logs) |-> logs[k].id]
    IN  [id                  |-> strftime_batch_id(t),
         created_at          |-> t,
         log_ids             |-> log_ids,
         merkle_root         |-> build_merkle_root(leaf_seq),
         log_count           |-> Len(log_ids),
         anchor_status       |-> "pending",
         anchor_txid         |-> NoneStr,
         anchor_block_hash   |-> NoneStr,
         anchor_block_height |-> NoneInt,
         anchor_block_time   |-> NoneInt]

FlushNoLogs == Response("flush", NoneInt, 400, "No unbatched logs available", <<>>, NoProof)
FlushOk(batch) == Response("flush", NoneInt, 200, "", <<batch>>, NoProof)

\* POST /api/v1/batches/flush, run without interruption: select the unbatched logs,
\* build the batch, save it, stamp the logs (batching.py:16-39, main.py:345-351).
flush_batch ==
    /\ LET logs == get_unbatched_logs(energy_logs)
       IN  IF logs = <<>>
           THEN /\ resp' = FlushNoLogs
                /\ UNCHANGED <<energy_logs, energy_batches>>
           ELSE LET batch == NewBatch(logs, now)
                IN  /\ energy_batches' = save_batch(energy_batches, batch)
                    /\ energy_logs' = set_batch_for_logs(energy_logs, batch.id,
                                                         batch.log_ids)
                    /\ resp' = FlushOk(batch)
    /\ UNCHANGED mvars
    /\ UNCHANGED anchor_local
    /\ UNCHANGED <<now, flush_pc, flush_local, proof_pc, proof_local>>

\* A lookup that takes the batch to be ordered by id: the number of smaller ids.
IndexOfId_ByIdOrder(batch_logs, log_id) ==
    IF \E k \in 1..Len(batch_logs) : batch_logs[k].id = log_id
    THEN Cardinality({ k \in 1..Len(batch_logs) : batch_logs[k].id < log_id })
    ELSE NoneInt

\* [l.id for l in batch_logs].index(log_id): 0-based, NoneInt when it raises ValueError.
IndexOfId(batch_logs, log_id) ==
    IF \E k \in 1..Len(batch_logs) : batch_logs[k].id = log_id
    THEN Min({ k \in 1..Len(batch_logs) : batch_logs[k].id = log_id }) - 1
    ELSE NoneInt

\* main.py:389-390, the detail of the 500 raised when the recomputed root differs.
RootMismatch == "Merkle root mismatch for batch; stored root may be inconsistent"

ProofError(log_id, status, detail) ==
    Response("get_log_proof", log_id, status, detail, <<>>, NoProof)

\* A proof builder that does not compare the recomputed root with the stored one.
ProofResult_NoRootCheck(logs, local) ==
    LET batch_logs == get_logs_by_batch(logs, local.log_batch_id)
        leaf_list  == [k \in 1..Len(batch_logs) |-> batch_logs[k].leaf_hash]
        idx        == IndexOfId(batch_logs, local.log_id)
    IN  IF idx = NoneInt
        THEN ProofError(local.log_id, 500, "Log not found in its own batch")
        ELSE Response("get_log_proof", local.log_id, 200, "", <<>>,
                      [log_id      |-> local.log_id,
                       batch_id    |-> local.log_batch_id,
                       leaf_hash   |-> local.log_leaf_hash,
                       merkle_root |-> local.batch_merkle_root,
                       index       |-> idx,
                       proof       |-> build_merkle_proof(leaf_list, idx).proof])

\* main.py:376-403: get_logs_by_batch, locate the log by id, recompute and compare the
\* root, build the proof. local holds the log and the batch read before.
ProofResult(logs, local) ==
    LET batch_logs == get_logs_by_batch(logs, local.log_batch_id)
        leaf_list  == [k \in 1..Len(batch_logs) |-> batch_logs[k].leaf_hash]
        idx        == IndexOfId(batch_logs, local.log_id)
    IN  IF idx = NoneInt
        THEN ProofError(local.log_id, 500, "Log not found in its own batch")
        ELSE IF build_merkle_root(leaf_list) # local.batch_merkle_root
        THEN ProofError(local.log_id, 500, RootMismatch)
        ELSE Response("get_log_proof", local.log_id, 200, "", <<>>,
                      [log_id      |-> local.log_id,
                       batch_id    |-> local.log_batch_id,
                       leaf_hash   |-> local.log_leaf_hash,
                       merkle_root |-> local.batch_merkle_root,
                       index       |-> idx,
                       proof       |-> build_merkle_proof(leaf_list, idx).proof])

\* A handler that looks the batch up before it tests whether the log has one.
ProofResponse_BatchFirst(logs, batches, log_id) ==
    LET found == get_log(logs, log_id)
    IN  IF found = <<>> THEN ProofError(log_id, 404, "Log not found")
        ELSE LET batch == get_batch(batches, found[1].batch_id)
             IN  IF batch = <<>> THEN ProofError(log_id, 404, "Batch not found")
                 ELSE ProofResult(logs,
                        [log_id            |-> log_id,
                         log_batch_id      |-> found[1].batch_id,
                         log_leaf_hash     |-> found[1].leaf_hash,
                         batch_merkle_root |-> batch[1].merkle_root])

\* get_log_proof, main.py:363-403, as a function of the stored tables.
ProofResponse(logs, batches, log_id) ==
    LET found == get_log(logs, log_id)
    IN  IF found = <<>> THEN ProofError(log_id, 404, "Log not found")
        ELSE IF found[1].batch_id = NoneInt
        THEN ProofError(log_id, 400, "Log has not been assigned to a batch yet")
        ELSE LET batch == get_batch(batches, found[1].batch_id)
             IN  IF batch = <<>> THEN ProofError(log_id, 404, "Batch not found")
                 ELSE ProofResult(logs,
                        [log_id            |-> log_id,
                         log_batch_id      |-> found[1].batch_id,
                         log_leaf_hash     |-> found[1].leaf_hash,
                         batch_merkle_root |-> batch[1].merkle_root])

\* GET /api/v1/logs/{log_id}/proof, run without interruption.
get_log_proof(log_id) ==
    /\ resp' = ProofResponse(energy_logs, energy_batches, log_id)
    /\ UNCHANGED mvars
    /\ UNCHANGED anchor_local
    /\ UNCHANGED <<energy_logs, energy_batches, now, flush_pc, flush_local,
                   proof_pc, proof_local>>

\* GET /api/v1/batches
list_batches_handler ==
    /\ resp' = Response("list_batches", NoneInt, 200, "", list_batches(energy_batches), NoProof)
    /\ UNCHANGED mvars
    /\ UNCHANGED anchor_local
    /\ UNCHANGED <<energy_logs, energy_batches, now, flush_pc, flush_local,
                   proof_pc, proof_local>>

\* body.x or default
OrStr(x, default) == IF x = NoneStr \/ x = "" THEN default ELSE x
OrInt(x, default) == IF x = NoneInt \/ x = 0 THEN default ELSE x

DefaultBlockHeight == 100000

\* The request body of the anchor simulator that is tried: the dashboard's {}.
AnchorBodies ==
    { [txid |-> NoneStr, block_hash |-> NoneStr, block_height |-> NoneInt] }

\* POST /api/v1/batches/{batch_id}/anchor/simulate; "simtx" and "simblock" stand for
\* f"simtx_{batch_id}" and f"simblock_{batch_id}" of the row they are stored in.
simulate_anchor(batch_id, body) ==
    /\ IF get_batch(energy_batches, batch_id) = <<>>
       THEN /\ resp' = Response("simulate_anchor", batch_id, 404, "Batch not found", <<>>, NoProof)
            /\ UNCHANGED energy_batches
       ELSE LET updated == update_batch_anchor(energy_batches, batch_id, "anchored",
                               OrStr(body.txid, "simtx"),
                               OrStr(body.block_hash, "simblock"),
                               OrInt(body.block_height, DefaultBlockHeight),
                               now)
            IN  /\ energy_batches' = updated
                /\ resp' = Response("simulate_anchor", batch_id, 200, "",
                                    get_batch(updated, batch_id), NoProof)
    /\ UNCHANGED mvars
    /\ UNCHANGED anchor_local
    /\ UNCHANGED <<energy_logs, now, flush_pc, flush_local, proof_pc, proof_local>>

Next ==
    \/ Tick
    \/ \E payload \in Payloads : create_log(payload)
    \/ flush_batch
    \/ \E log_id \in 1..MaxLogs : get_log_proof(log_id)
    \/ list_batches_handler
    \/ \E batch_id \in BatchIds, body \in AnchorBodies : simulate_anchor(batch_id, body)

NoOutput ==
    [called |-> FALSE, root |-> <<>>, leaves_after |-> <<>>, root_reversed |-> <<>>,
     root_extended |-> <<>>,
     raised |-> "none", proof |-> <<>>, ok |-> "none"]

\* No document has been given to the verifier.
NoVerdict ==
    [kind |-> "none", k |-> 0, leaf |-> <<>>, root |-> <<>>, proof |-> <<>>, ok |-> "none",
     report |-> "none"]

MerkleIdle ==
    /\ leaves = <<>>
    /\ index = 0
    /\ merkle_out = NoOutput
    /\ verdict = NoVerdict

Init == SysInit /\ MerkleIdle


\* Every request runs to completion before the next one starts.
Spec == Init /\ [][Next]_vars

\* ------------------------------------------- requests that interleave
\* The handlers are plain def endpoints, so requests run on a thread pool and each
\* storage call opens and commits its own connection: two requests interleave at
\* the granularity of their storage calls.

\* The payloads ingested while requests interleave.
ConcPayloads == { [ts_start |-> 1, energy_kwh |-> 1], [ts_start |-> 2, energy_kwh |-> 1] }

\* batching.py:16-18: logs = storage.get_unbatched_logs(); raise when there are none.
FlushSelect(w) ==
    /\ flush_pc[w] = "idle"
    /\ LET logs == get_unbatched_logs(energy_logs)
       IN  IF logs = <<>>
           THEN /\ resp' = FlushNoLogs
                /\ UNCHANGED <<flush_pc, flush_local>>
           ELSE /\ flush_pc' = [flush_pc EXCEPT ![w] = "selected"]
                /\ flush_local' = [flush_local EXCEPT ![w].logs = logs]
                /\ UNCHANGED resp
    /\ UNCHANGED mvars
    /\ UNCHANGED anchor_local
    /\ UNCHANGED <<energy_logs, energy_batches, now, proof_pc, proof_local>>

\* batching.py:20-34: now = datetime.utcnow(); the batch value.
FlushBuild(w) ==
    /\ flush_pc[w] = "selected"
    /\ flush_local' = [flush_local EXCEPT ![w].batch = NewBatch(flush_local[w].logs, now)]
    /\ flush_pc' = [flush_pc EXCEPT ![w] = "built"]
    /\ UNCHANGED mvars
    /\ UNCHANGED anchor_local
    /\ UNCHANGED <<energy_logs, energy_batches, now, proof_pc, proof_local, resp>>

\* batching.py:36: storage.save_batch(batch)
FlushSave(w) ==
    /\ flush_pc[w] = "built"
    /\ energy_batches' = save_batch(energy_batches, flush_local[w].batch)
    /\ flush_pc' = [flush_pc EXCEPT ![w] = "saved"]
    /\ UNCHANGED mvars
    /\ UNCHANGED anchor_local
    /\ UNCHANGED <<energy_logs, now, flush_local, proof_pc, proof_local, resp>>

\* batching.py:37-39: storage.set_batch_for_logs(batch_id, log_ids); return batch
FlushStamp(w) ==
    /\ flush_pc[w] = "saved"
    /\ LET batch == flush_local[w].batch
       IN  /\ energy_logs' = set_batch_for_logs(energy_logs, batch.id, batch.log_ids)
           /\ resp' = FlushOk(batch)
    /\ flush_pc' = [flush_pc EXCEPT ![w] = "idle"]
    /\ flush_local' = [flush_local EXCEPT ![w] = FlushIdle]
    /\ UNCHANGED mvars
    /\ UNCHANGED anchor_local
    /\ UNCHANGED <<energy_batches, now, proof_pc, proof_local>>

\* main.py:363-370: storage.get_log; 404 when missing, 400 when not batched.
ProofGetLog(log_id) ==
    /\ proof_pc = "idle"
    /\ LET found == get_log(energy_logs, log_id)
       IN  IF found = <<>>
           THEN /\ resp' = ProofError(log_id, 404, "Log not found")
                /\ UNCHANGED <<proof_pc, proof_local>>
           ELSE IF found[1].batch_id = NoneInt
           THEN /\ resp' = ProofError(log_id, 400, "Log has not been assigned to a batch yet")
                /\ UNCHANGED <<proof_pc, proof_local>>
           ELSE /\ proof_pc' = "got_log"
                /\ proof_local' = [ProofIdle EXCEPT !.log_id = log_id,
                                                    !.log_batch_id = found[1].batch_id,
                                                    !.log_leaf_hash = found[1].leaf_hash]
                /\ UNCHANGED resp
    /\ UNCHANGED mvars
    /\ UNCHANGED anchor_local
    /\ UNCHANGED <<energy_logs, energy_batches, now, flush_pc, flush_local>>

\* main.py:372-374: storage.get_batch; 404 when the batch is missing.
ProofGetBatch ==
    /\ proof_pc = "got_log"
    /\ LET found == get_batch(energy_batches, proof_local.log_batch_id)
       IN  IF found = <<>>
           THEN /\ resp' = ProofError(proof_local.log_id, 404, "Batch not found")
                /\ proof_pc' = "idle"
                /\ proof_local' = ProofIdle
           ELSE /\ proof_pc' = "got_batch"
                /\ proof_local' = [proof_local EXCEPT
                                     !.batch_merkle_root = found[1].merkle_root]
                /\ UNCHANGED resp
    /\ UNCHANGED mvars
    /\ UNCHANGED anchor_local
    /\ UNCHANGED <<energy_logs, energy_batches, now, flush_pc, flush_local>>

\* main.py:376-403: storage.get_logs_by_batch and the rest of the handler.
ProofBuild ==
    /\ proof_pc = "got_batch"
    /\ resp' = ProofResult(energy_logs, proof_local)
    /\ proof_pc' = "idle"
    /\ proof_local' = ProofIdle
    /\ UNCHANGED mvars
    /\ UNCHANGED anchor_local
    /\ UNCHANGED <<energy_logs, energy_batches, now, flush_pc, flush_local>>

ConcNext ==
    \/ Tick
    \/ \E payload \in ConcPayloads : create_log(payload)
    \/ \E w \in FlushWorkers : FlushSelect(w)
    \/ \E w \in FlushWorkers : FlushBuild(w)
    \/ \E w \in FlushWorkers : FlushSave(w)
    \/ \E w \in FlushWorkers : FlushStamp(w)

\* Ingestion and flush requests interleave at their storage calls.
SpecConc == Init /\ [][ConcNext]_vars

\* The flush request that runs beside the proof request.
ReadFlushWorkers == {"f1"}

ReadNext ==
    \/ Tick
    \/ \E payload \in ConcPayloads : create_log(payload)
    \/ \E w \in ReadFlushWorkers : FlushSelect(w)
    \/ \E w \in ReadFlushWorkers : FlushBuild(w)
    \/ \E w \in ReadFlushWorkers : FlushSave(w)
    \/ \E w \in ReadFlushWorkers : FlushStamp(w)
    \/ \E log_id \in 1..MaxLogs : ProofGetLog(log_id)
    \/ ProofGetBatch
    \/ ProofBuild

\* A proof request interleaves with ingestion and a flush request.
SpecRead == Init /\ [][ReadNext]_vars

\* ------------------------------------------------------------ anchor requests
\* The request bodies of the anchor simulator: {}, a body that supplies all three
\* values, and one that supplies the height of the genesis block.
AnchorRequests ==
    { [txid |-> NoneStr, block_hash |-> NoneStr, block_height |-> NoneInt],
      [txid |-> "tx1", block_hash |-> "bh1", block_height |-> 7],
      [txid |-> "tx1", block_hash |-> "bh1", block_height |-> 0] }

\* The one payload ingested where the order of the records is not looked at.
OnePayload == { [ts_start |-> 1, energy_kwh |-> 1] }

\* main.py:420-422: storage.get_batch; 404 when the batch is missing.
AnchorGetBatch(batch_id, body) ==
    /\ anchor_local.pc = "idle"
    /\ LET found == get_batch(energy_batches, batch_id)
       IN  IF found = <<>>
           THEN /\ resp' = Response("simulate_anchor", batch_id, 404, "Batch not found",
                                    <<>>, NoProof)
                /\ anchor_local' = [pc |-> "idle", batch_id |-> batch_id, body |-> body,
                                    batch |-> <<>>]
           ELSE /\ anchor_local' = [pc |-> "got_batch", batch_id |-> batch_id,
                                    body |-> body, batch |-> found]
                /\ UNCHANGED resp
    /\ UNCHANGED mvars
    /\ UNCHANGED <<energy_logs, energy_batches, now, flush_pc, flush_local,
                   proof_pc, proof_local>>

\* main.py:424-439: the values of the call, update_batch_anchor, the updated batch
\* (500 when the row is gone; rows are never deleted).
AnchorUpdate ==
    /\ anchor_local.pc = "got_batch"
    /\ LET batch_id == anchor_local.batch_id
           body     == anchor_local.body
           updated  == update_batch_anchor(energy_batches, batch_id, "anchored",
                           OrStr(body.txid, "simtx"),
                           OrStr(body.block_hash, "simblock"),
                           OrInt(body.block_height, DefaultBlockHeight),
                           now)
       IN  /\ energy_batches' = updated
           /\ resp' = IF get_batch(updated, batch_id) = <<>>
                      THEN Response("simulate_anchor", batch_id, 500,
                                    "Failed to update batch anchor info", <<>>, NoProof)
                      ELSE Response("simulate_anchor", batch_id, 200, "",
                                    get_batch(updated, batch_id), NoProof)
    /\ anchor_local' = [anchor_local EXCEPT !.pc = "idle"]
    /\ UNCHANGED mvars
    /\ UNCHANGED <<energy_logs, now, flush_pc, flush_local, proof_pc, proof_local>>

AnchorNext ==
    \/ Tick
    \/ \E payload \in OnePayload : create_log(payload)
    \/ flush_batch
    \/ \E batch_id \in BatchIds, body \in AnchorRequests : AnchorGetBatch(batch_id, body)
    \/ AnchorUpdate

\* Ingestion, flushes and anchor requests; the anchor request keeps its locals.
SpecAnchor == Init /\ [][AnchorNext]_vars

\* ------------------------------------------------------------ ingestion and flushes
FlushNext ==
    \/ Tick
    \/ \E payload \in OnePayload : create_log(payload)
    \/ \E w \in FlushWorkers : FlushSelect(w)
    \/ \E w \in FlushWorkers : FlushBuild(w)
    \/ \E w \in FlushWorkers : FlushSave(w)
    \/ \E w \in FlushWorkers : FlushStamp(w)

\* Ingestion beside two flush requests that interleave at their storage calls.
SpecFlush == Init /\ [][FlushNext]_vars

\* A flush request that has been made runs to completion, and flush requests keep
\* being made: each storage call of each request is taken if it stays possible.
FlushFairness ==
    \A w \in FlushWorkers :
        /\ WF_vars(FlushSelect(w))
        /\ WF_vars(FlushBuild(w))
        /\ WF_vars(FlushSave(w))
        /\ WF_vars(FlushStamp(w))

SpecFlushFair == SpecFlush /\ FlushFairness

\* ------------------------------------------------ the engine on its own
\* Leaf digests the engine is exercised on.
LeafDigests == { leaf_hash_from_payload(p) : p \in Payloads }

RECURSIVE SeqsUpTo(_, _)
SeqsUpTo(S, n) ==
    IF n = 0 THEN { <<>> }
    ELSE LET shorter == SeqsUpTo(S, n - 1)
         IN  shorter \cup { Append(s, x) : s \in { t \in shorter : Len(t) = n - 1 }, x \in S }

MerkleInit ==
    /\ leaves \in SeqsUpTo(LeafDigests, MaxLeaves)
    /\ index \in -1..MaxLeaves
    /\ merkle_out = NoOutput
    /\ verdict = NoVerdict
    /\ SysInit

\* The list with a copy of its last element appended.
WithLastCopied(l) == IF l = <<>> THEN l ELSE Append(l, l[Len(l)])

\* The list read back to front.
Reverse(l) == [k \in 1..Len(l) |-> l[Len(l) + 1 - k]]

\* root = build_merkle_root(L); proof = build_merkle_proof(L, i); verify(L[i], root, proof);
\* and build_merkle_root of L reversed and of L with its last leaf copied.
MerkleCall ==
    /\ ~merkle_out.called
    /\ LET root == build_merkle_root(leaves)
           p    == build_merkle_proof(leaves, index)
       IN  merkle_out' =
             [called       |-> TRUE,
              root         |-> root,
              leaves_after |-> CallerListAfter(leaves),
              root_reversed |-> build_merkle_root(Reverse(leaves)),
              root_extended |-> build_merkle_root(WithLastCopied(leaves)),
              raised       |-> p.raised,
              proof        |-> p.proof,
              ok           |-> IF p.raised = "none" /\ index \in 0..(Len(leaves) - 1)
                               THEN verify_merkle_proof(leaves[index + 1], root, p.proof)
                               ELSE "none"]
    /\ UNCHANGED <<leaves, index, verdict>>
    /\ UNCHANGED sysvars

\* h.upper(): the same bytes spelled with upper-case letters.
upper(h) == <<UpperHex>> \o fromhex(h)

\* The digests a tamperer writes in place of h: any other digest at hand, and the
\* other spelling of h itself.
OtherDigests(h) ==
    (LeafDigests \cup { upper(h), ZeroRoot,
                        sha256_pair(leaf_hash_from_payload([ts_start |-> 1, energy_kwh |-> 1]),
                                    leaf_hash_from_payload([ts_start |-> 1, energy_kwh |-> 2])) })
      \ { h }

\* Values of step["position"] that are neither "left" nor "right".
BadPositions == { "up", "LEFT" }

\* The documents {leaf_hash, merkle_root, proof} that differ from a valid one in one
\* place: the leaf, the root, the hash of step k, or (with any leaf and root) the
\* position of step k.
Tampered(leaf, root, proof) ==
    { [kind |-> "leaf", k |-> 0, leaf |-> d, root |-> root, proof |-> proof] :
        d \in OtherDigests(leaf) }
    \cup
    { [kind |-> "root", k |-> 0, leaf |-> leaf, root |-> d, proof |-> proof] :
        d \in OtherDigests(root) }
    \cup
    UNION { { [kind |-> "hash", k |-> k, leaf |-> leaf, root |-> root,
               proof |-> [proof EXCEPT ![k].hash = d]] : d \in OtherDigests(proof[k].hash) } :
            k \in 1..Len(proof) }
    \cup
    UNION { { [kind |-> "position", k |-> k, leaf |-> doc[1], root |-> doc[2],
               proof |-> [proof EXCEPT ![k].position = doc[3]]] :
              doc \in {leaf, ZeroRoot} \X {root, ZeroRoot} \X BadPositions } :
            k \in 1..Len(proof) }

\* The document as get_log_proof wrote it, and the same without its leaf_hash
\* (data.get gives None, which is as false as the empty string <<>>).
Untampered(leaf, root, proof) ==
    { [kind |-> "intact", k |-> 0, leaf |-> leaf, root |-> root, proof |-> proof],
      [kind |-> "missing", k |-> 0, leaf |-> <<>>, root |-> root, proof |-> proof] }

\* A verifier that takes an empty proof list for a missing one.
main_ProofTruthy(leaf_hash, merkle_root, proof) ==
    IF leaf_hash = <<>> \/ merkle_root = <<>> \/ proof = <<>>
    THEN [ok |-> "none", report |-> "Invalid proof JSON"]
    ELSE LET ok == verify_merkle_proof(leaf_hash, merkle_root, proof)
         IN  [ok     |-> ok,
              report |-> IF ok = "True" THEN "VALID"
                         ELSE IF ok = "False" THEN "INVALID" ELSE "ValueError"]

\* verify_proof.py main, from the parsed document on: the three fields must be there
\* (proof a list, which every proof here is), then verify_merkle_proof decides; its
\* ValueError is not caught.
main(leaf_hash, merkle_root, proof) ==
    IF leaf_hash = <<>> \/ merkle_root = <<>>
    THEN [ok |-> "none", report |-> "Invalid proof JSON"]
    ELSE LET ok == verify_merkle_proof(leaf_hash, merkle_root, proof)
         IN  [ok     |-> ok,
              report |-> IF ok = "True" THEN "VALID"
                         ELSE IF ok = "False" THEN "INVALID" ELSE "ValueError"]

\* verify_proof.py on the document that verified or on an altered copy of it.
verify_proof_main ==
    /\ merkle_out.called
    /\ merkle_out.ok = "True"
    /\ verdict = NoVerdict
    /\ \E t \in Tampered(leaves[index + 1], merkle_out.root, merkle_out.proof)
                 \cup Untampered(leaves[index + 1], merkle_out.root, merkle_out.proof) :
          LET r == main(t.leaf, t.root, t.proof)
          IN  verdict' = [kind   |-> t.kind,
                          k      |-> t.k,
                          leaf   |-> t.leaf,
                          root   |-> t.root,
                          proof  |-> t.proof,
                          ok     |-> r.ok,
                          report |-> r.report]
    /\ UNCHANGED <<leaves, index, merkle_out>>
    /\ UNCHANGED sysvars

MerkleNext == MerkleCall \/ verify_proof_main

SpecMerkle == MerkleInit /\ [][MerkleNext]_vars

\* C1: every leaf of a non-empty list verifies against the list's root with its proof.
C1_ProofVerifies ==
    (merkle_out.called /\ index >= 0 /\ index < Len(leaves)) => merkle_out.ok = "True"

\* C1 witness: the last leaf of a 5-leaf list (odd at the first and third level).
C1_Witness ==
    /\ merkle_out.called
    /\ Len(leaves) = 5
    /\ index = 4
    /\ merkle_out.ok = "True"
    /\ Len(merkle_out.proof) = 3

\* ---------------------------------------------------- storage and flush
\* The leaf hashes of the records stamped with batch_id, as get_logs_by_batch orders them.
MemberLeaves(batch_id) ==
    LET members == get_logs_by_batch(energy_logs, batch_id)
    IN  [k \in 1..Len(members) |-> members[k].leaf_hash]

\* C2: the root recomputed over the members of every stored batch, in the order
\* get_logs_by_batch returns them, is the batch's stored merkle_root.
C2_StoredRootReproducible ==
    \A b \in DOMAIN energy_batches :
        build_merkle_root(MemberLeaves(b)) = energy_batches[b].merkle_root

\* C3: a record is ingested without a batch id, and a batch id once set never changes.
C3_BatchIdSetOnce ==
    [][ /\ \A k \in 1..Len(energy_logs) :
              energy_logs[k].batch_id # NoneInt
                  => energy_logs'[k].batch_id = energy_logs[k].batch_id
        /\ Len(energy_logs') > Len(energy_logs)
              => energy_logs'[Len(energy_logs')].batch_id = NoneInt ]_vars

\* The batch value a flush request holds once it has built it.
HasBatch(w) == flush_pc[w] \in {"built", "saved"}
LogIdSet(batch) == { batch.log_ids[k] : k \in 1..Len(batch.log_ids) }
StampedWith(batch_id) ==
    { k \in 1..Len(energy_logs) : energy_logs[k].batch_id = batch_id }

\* C4: interleaved flushes never put one record in the log_ids of two batches, and
\* never stamp a record with a batch that does not count it.
C4_FlushAtomic ==
    /\ \A w1 \in FlushWorkers, w2 \in FlushWorkers :
          (w1 # w2 /\ HasBatch(w1) /\ HasBatch(w2))
              => LogIdSet(flush_local[w1].batch) \cap LogIdSet(flush_local[w2].batch) = {}
    /\ \A b \in DOMAIN energy_batches :
          Cardinality(StampedWith(b)) <= energy_batches[b].log_count

\* A step in which a flush succeeded: it is the only handler that stamps records.
FlushSucceeded ==
    /\ resp'.op = "flush"
    /\ resp'.status = 200
    /\ energy_logs' # energy_logs

\* C5: the id of the batch a successful flush returns is the id of no batch that was
\* stored before the flush.
C5_MintedIdIsFresh ==
    [][ FlushSucceeded => resp'.batches[1].id \notin DOMAIN energy_batches ]_vars

\* C6: a stored batch keeps its merkle_root, log_count and created_at for ever.
C6_BatchCoreImmutable ==
    [][ \A b \in DOMAIN energy_batches :
            /\ b \in DOMAIN energy_batches'
            /\ energy_batches'[b].merkle_root = energy_batches[b].merkle_root
            /\ energy_batches'[b].log_count = energy_batches[b].log_count
            /\ energy_batches'[b].created_at = energy_batches[b].created_at ]_vars

\* C7: in every batch a handler returns, log_count is the length of log_ids.
C7_LogCountIsLenLogIds ==
    \A k \in 1..Len(resp.batches) :
        resp.batches[k].log_count = Len(resp.batches[k].log_ids)

\* ------------------------------------------------------------ get_proof
ProofSucceeded == resp.op = "get_log_proof" /\ resp.status = 200

\* C8: a proof document that get_log_proof returns names the position of the record
\* (found by id) among the members of its batch, the record's leaf hash and the
\* batch's stored root, and it verifies; the second of three members has index 1 and
\* a proof of two steps.
C8_ProofDocumentCorrect ==
    ProofSucceeded =>
        LET doc     == resp.proof
            members == get_logs_by_batch(energy_logs, doc.batch_id)
        IN  /\ doc.log_id = resp.arg
            /\ doc.index \in 0..(Len(members) - 1)
            /\ members[doc.index + 1].id = doc.log_id
            /\ doc.leaf_hash = energy_logs[doc.log_id].leaf_hash
            /\ doc.batch_id = energy_logs[doc.log_id].batch_id
            /\ doc.batch_id \in DOMAIN energy_batches
            /\ doc.merkle_root = energy_batches[doc.batch_id].merkle_root
            /\ verify_merkle_proof(doc.leaf_hash, doc.merkle_root, doc.proof) = "True"
            /\ (Len(members) = 3 /\ members[2].id = doc.log_id)
                  => (doc.index = 1 /\ Len(doc.proof) = 2)

\* C8 witness: the proof of the second of three members, ingested out of ts_start order.
C8_Witness ==
    /\ ProofSucceeded
    /\ Len(get_logs_by_batch(energy_logs, resp.proof.batch_id)) = 3
    /\ resp.proof.index = 1
    /\ Len(resp.proof.proof) = 2
    /\ resp.proof.log_id # 2

\* A step in which get_log_proof returned.
ProofReturned == resp' # resp /\ resp'.op = "get_log_proof"

\* The tables with every batch row gone.
NoBatches == << >>

\* C9: get_log_proof answers 404 "Log not found" for an unknown id, 400 for a record
\* without a batch id, 404 "Batch not found" when the record's batch is not stored, in
\* that order, with no proof document, and the tables stay as they were.
C9_ProofErrors ==
    [][ ProofReturned =>
          LET found == get_log(energy_logs, resp'.arg)
          IN  /\ UNCHANGED <<energy_logs, energy_batches>>
              /\ found = <<>>
                    => (resp'.status = 404 /\ resp'.detail = "Log not found")
              /\ (found # <<>> /\ found[1].batch_id = NoneInt)
                    => /\ resp'.status = 400
                       /\ resp'.detail = "Log has not been assigned to a batch yet"
                       /\ ProofResponse(energy_logs, NoBatches, resp'.arg) = resp'
              /\ (found # <<>> /\ found[1].batch_id # NoneInt)
                    => LET lost == ProofResponse(energy_logs, NoBatches, resp'.arg)
                       IN  lost.status = 404 /\ lost.detail = "Batch not found"
              /\ resp'.status \in {400, 404} => resp'.proof = NoProof ]_vars

\* C9 witness: a stored record that was never flushed was answered 400.
C9_Witness ==
    /\ resp.op = "get_log_proof"
    /\ resp.status = 400
    /\ resp.arg \in 1..Len(energy_logs)
    /\ energy_logs[resp.arg].batch_id = NoneInt
    /\ \E k \in 1..Len(energy_logs) : energy_logs[k].batch_id # NoneInt

\* The root recomputed over the members of the batch of record log_id differs from
\* the root stored for that batch.
RootDiffers(log_id) ==
    /\ log_id \in 1..Len(energy_logs)
    /\ energy_logs[log_id].batch_id \in DOMAIN energy_batches
    /\ build_merkle_root(MemberLeaves(energy_logs[log_id].batch_id))
          # energy_batches[energy_logs[log_id].batch_id].merkle_root

\* C10: when the recomputed root differs from the stored root, get_log_proof answers
\* 500 root mismatch with no proof document, and the tables stay as they were.
C10_RootMismatchSurfaced ==
    [][ (ProofReturned /\ RootDiffers(resp'.arg)) =>
          /\ resp'.status = 500
          /\ resp'.detail = RootMismatch
          /\ resp'.proof = NoProof
          /\ UNCHANGED <<energy_logs, energy_batches>> ]_vars

\* C10 witness: a root mismatch was answered while the stored root still differs.
C10_Witness ==
    /\ resp.op = "get_log_proof"
    /\ resp.status = 500
    /\ resp.detail = RootMismatch
    /\ RootDiffers(resp.arg)

\* ------------------------------------------------------ flush outcomes
\* A step in which POST /batches/flush returned (the clock is the only step that
\* writes no response).
FlushReturned == resp'.op = "flush" /\ now' = now

Unbatched(logs) == { k \in 1..Len(logs) : logs[k].batch_id = NoneInt }

\* C11: flush answers 400 "No unbatched logs available" exactly when no stored record
\* lacks a batch id, and then it stores no batch and changes no record.
C11_NoUnbatchedLogs ==
    [][ FlushReturned =>
          /\ (resp'.status = 400 /\ resp'.detail = "No unbatched logs available")
                <=> (Unbatched(energy_logs) = {})
          /\ resp'.status \in {200, 400}
          /\ resp'.status = 400
                => /\ UNCHANGED <<energy_logs, energy_batches>>
                   /\ resp'.batches = <<>> ]_vars

\* C11 witness: flush was refused while records are stored, all of them batched.
C11_Witness ==
    /\ resp = FlushNoLogs
    /\ Len(energy_logs) >= 2
    /\ Unbatched(energy_logs) = {}

\* C12: a flush that succeeds stamps every record that was unbatched with the id of
\* the batch it returns and leaves no record unbatched; a flush that follows a
\* successful flush with no request in between is refused.
C12_FlushTakesAll ==
    [][ /\ (FlushReturned /\ resp'.status = 200)
              => /\ \A k \in Unbatched(energy_logs) :
                        energy_logs'[k].batch_id = resp'.batches[1].id
                 /\ Unbatched(energy_logs) # {}
                 /\ Unbatched(energy_logs') = {}
        /\ (FlushReturned /\ resp.op = "flush" /\ resp.status = 200)
              => resp'.status = 400 ]_vars

\* C12 witness: a flush of two records has just returned and none is left unbatched.
C12_Witness ==
    /\ resp.op = "flush"
    /\ resp.status = 200
    /\ Len(resp.batches[1].log_ids) = 2
    /\ Len(energy_logs) = 3
    /\ Unbatched(energy_logs) = {}

\* ------------------------------------------------------------------ C13
\* Reference root: pair adjacent elements left to right, the last element of an odd
\* level with itself, until one element is left.
RECURSIVE RefPairs(_)
RefPairs(l) ==
    IF l = <<>> THEN <<>>
    ELSE IF Len(l) = 1 THEN << sha256_pair(l[1], l[1]) >>
    ELSE << sha256_pair(l[1], l[2]) >> \o RefPairs(SubSeq(l, 3, Len(l)))

RECURSIVE RefRoot(_)
RefRoot(l) ==
    IF l = <<>> THEN ZeroRoot
    ELSE IF Len(l) = 1 THEN l[1]
    ELSE RefRoot(RefPairs(l))

\* C13: build_merkle_root(leaves) is the reference root of leaves (the zero sentinel
\* for no leaves, the leaf for one leaf, H(H(a||b) || H(c||c)) for three) and the
\* caller's list is what it was before the call.
C13_RootIsReference ==
    merkle_out.called =>
        /\ merkle_out.root = RefRoot(leaves)
        /\ leaves = <<>> => merkle_out.root = ZeroRoot
        /\ Len(leaves) = 1 => merkle_out.root = leaves[1]
        /\ Len(leaves) = 3 =>
              merkle_out.root = sha256_pair(sha256_pair(leaves[1], leaves[2]),
                                            sha256_pair(leaves[3], leaves[3]))
        /\ merkle_out.leaves_after = leaves

\* C13 witness: three different leaves, the third paired with itself.
C13_Witness ==
    /\ merkle_out.called
    /\ Len(leaves) = 3
    /\ Cardinality({ leaves[k] : k \in 1..3 }) = 3
    /\ merkle_out.root = sha256_pair(sha256_pair(leaves[1], leaves[2]),
                                     sha256_pair(leaves[3], leaves[3]))
    /\ merkle_out.leaves_after = leaves

\* ------------------------------------------------------------------ C14
\* C14: a document that verified, with its leaf, its root or the hash of one proof
\* step replaced by a different digest, is answered False.
C14_TamperDetected ==
    verdict.kind \in {"leaf", "root", "hash"} => verdict.ok = "False"

\* The replacements that change the bytes of the digest, not only its spelling, are
\* answered False.
TamperedBytesDetected ==
    /\ (verdict.kind = "leaf" /\ fromhex(verdict.leaf) # fromhex(leaves[index + 1]))
          => verdict.ok = "False"
    /\ verdict.kind = "root" => verdict.ok = "False"
    /\ (verdict.kind = "hash"
          /\ fromhex(verdict.proof[verdict.k].hash) # fromhex(merkle_out.proof[verdict.k].hash))
          => verdict.ok = "False"

\* ------------------------------------------------------------------ C15
\* C15: for two different leaves a and b, build_merkle_root([a, b]) differs from
\* build_merkle_root([b, a]).
C15_OrderSensitive ==
    (merkle_out.called /\ Len(leaves) = 2 /\ leaves[1] # leaves[2])
        => merkle_out.root # merkle_out.root_reversed

\* C15 witness: both roots of a two-leaf list with different leaves were built.
C15_Witness ==
    /\ merkle_out.called
    /\ Len(leaves) = 2
    /\ leaves[1] # leaves[2]
    /\ merkle_out.root = sha256_pair(leaves[1], leaves[2])
    /\ merkle_out.root_reversed = sha256_pair(leaves[2], leaves[1])

\* ------------------------------------------------------------------ C19
\* C19: build_merkle_proof raises IndexError, and returns no proof, for every index
\* below 0 or not below len(leaves); with no leaves that is every index.
C19_IndexOutOfRange ==
    (merkle_out.called /\ (index < 0 \/ index >= Len(leaves) \/ leaves = <<>>))
        => /\ merkle_out.raised = "IndexError"
           /\ merkle_out.proof = <<>>
           /\ merkle_out.ok = "none"

\* C19 witness: index -1 on a full list (python would read the last element).
C19_Witness ==
    /\ merkle_out.called
    /\ Len(leaves) = MaxLeaves
    /\ index = -1
    /\ merkle_out.raised = "IndexError"

\* The other out-of-range cases happen as well: no leaves with index 0, and
\* index = len(leaves).
IndexErrorCases ==
    /\ merkle_out.called
    /\ merkle_out.raised = "IndexError"
    /\ \/ leaves = <<>> /\ index = 0
       \/ leaves # <<>> /\ index = Len(leaves)

\* ------------------------------------------------------------------ C20
\* C20: a proof with a step whose position is neither "left" nor "right" makes
\* verify_merkle_proof raise ValueError, at whichever step it sits and whatever
\* leaf and root come with it; the answer is never True or False.
C20_InvalidProofStep ==
    verdict.kind = "position" =>
        /\ verdict.proof[verdict.k].position \notin {"left", "right"}
        /\ verdict.ok = "ValueError"

\* C20 witness: the bad position sits in the last of three steps, behind two valid
\* ones, and the leaf and the root are the ones that verified.
C20_Witness ==
    /\ verdict.kind = "position"
    /\ Len(verdict.proof) = 3
    /\ verdict.k = 3
    /\ verdict.leaf = leaves[index + 1]
    /\ verdict.root = merkle_out.root
    /\ verdict.ok = "ValueError"

\* The bad position is also met in the first step, with another leaf and root.
InvalidFirstStep ==
    /\ verdict.kind = "position"
    /\ Len(verdict.proof) >= 2
    /\ verdict.k = 1
    /\ verdict.leaf # leaves[index + 1]
    /\ verdict.root # merkle_out.root
    /\ verdict.ok = "ValueError"

\* ------------------------------------------------------------------ C16
\* The ids of the records get_logs_by_batch returns for a batch, in its order.
MemberIds(logs, batch_id) ==
    LET members == get_logs_by_batch(logs, batch_id)
    IN  [k \in 1..Len(members) |-> members[k].id]

\* C16: get_logs_by_batch returns the members of a batch in the order in which the
\* flush that formed the batch read them (its log_ids), ties on ts_start and records
\* ingested out of ts_start order included.
C16_MembersInFlushOrder ==
    (resp.op = "flush" /\ resp.status = 200)
        => MemberIds(energy_logs, resp.batches[1].id) = resp.batches[1].log_ids

\* A flush whose batch id was not stored before yields the members in the order read.
FreshBatchOrderKept ==
    [][ (FlushSucceeded /\ resp'.batches[1].id \notin DOMAIN energy_batches)
            => MemberIds(energy_logs', resp'.batches[1].id) = resp'.batches[1].log_ids ]_vars

\* A batch read in an order that is neither the ingestion order nor free of ties.
TiedOutOfOrderBatch ==
    /\ resp.op = "flush"
    /\ resp.status = 200
    /\ resp.batches[1].log_ids = <<2, 3, 1>>
    /\ MemberIds(energy_logs, resp.batches[1].id) = <<2, 3, 1>>

\* ------------------------------------------------------------------ C17
\* The proof request got past its first read: the record exists and carries a batch id,
\* which FlushStamp writes as the last storage call of the flush that formed the batch.
AnsweredForFlushedRecord ==
    /\ resp.op = "get_log_proof"
    /\ resp.detail \notin {"Log not found", "Log has not been assigned to a batch yet"}

\* C17: a proof request for a record of a completely flushed batch, run beside
\* ingestions and later flushes, answers 200 with a proof that verifies against the
\* root it names; it meets neither a missing batch nor a root mismatch.
C17_ProofBesideWrites ==
    AnsweredForFlushedRecord =>
        /\ resp.status = 200
        /\ verify_merkle_proof(resp.proof.leaf_hash, resp.proof.merkle_root,
                               resp.proof.proof) = "True"

\* ------------------------------------------------------------------ C18
\* The anchor fields of a batch row that has not been anchored.
Unanchored(row) ==
    /\ row.anchor_status = "pending"
    /\ row.anchor_txid = NoneStr
    /\ row.anchor_block_hash = NoneStr
    /\ row.anchor_block_height = NoneInt
    /\ row.anchor_block_time = NoneInt

\* C18: a batch is stored first as pending with no anchor fields, turns anchored only
\* in an anchor call that names it, and once anchored stays anchored.
C18_AnchorLifecycle ==
    [][ /\ \A b \in DOMAIN energy_batches' \ DOMAIN energy_batches :
              Unanchored(energy_batches'[b])
        /\ \A b \in DOMAIN energy_batches :
              /\ b \in DOMAIN energy_batches'
              /\ (energy_batches[b].anchor_status # "anchored"
                    /\ energy_batches'[b].anchor_status = "anchored")
                    => (resp'.op = "simulate_anchor" /\ resp'.arg = b /\ resp'.status = 200)
              /\ energy_batches[b].anchor_status = "anchored"
                    => energy_batches'[b].anchor_status = "anchored" ]_vars

\* The first two parts on their own: what a new batch holds and what anchors a batch.
PendingUntilAnchorCall ==
    [][ /\ \A b \in DOMAIN energy_batches' \ DOMAIN energy_batches :
              Unanchored(energy_batches'[b])
        /\ \A b \in DOMAIN energy_batches :
              (b \in DOMAIN energy_batches'
                /\ energy_batches[b].anchor_status # "anchored"
                /\ energy_batches'[b].anchor_status = "anchored")
                => (resp'.op = "simulate_anchor" /\ resp'.arg = b /\ resp'.status = 200) ]_vars

\* ------------------------------------------------------------------ C22
\* The least d with 2^d >= n.
RECURSIVE CeilLog2(_)
CeilLog2(n) == IF n <= 1 THEN 0 ELSE 1 + CeilLog2((n + 1) \div 2)

\* Reference proof: at each level the pair partner of the tracked index i in the level
\* padded to even length, "right" for even i and "left" for odd i, then i halves.
RECURSIVE RefProof(_, _)
RefProof(l, i) ==
    IF Len(l) <= 1 THEN <<>>
    ELSE LET padded  == IF Len(l) % 2 = 1 THEN l \o << l[Len(l)] >> ELSE l
             partner == IF i % 2 = 0 THEN i + 1 ELSE i - 1
         IN  << [position |-> IF i % 2 = 0 THEN "right" ELSE "left",
                 hash     |-> padded[partner + 1]] >>
               \o RefProof(RefPairs(l), i \div 2)

\* C22: for n >= 1 leaves build_merkle_proof returns one step per reduction level,
\* ceil(log2 n) in all and none for one leaf, bottom-up; each step is the tracked
\* index's pair partner in the padded level, "right" when the index is even and
\* "left" when it is odd, and the index then halves.
C22_ProofShape ==
    (merkle_out.called /\ merkle_out.raised = "none") =>
        /\ Len(leaves) >= 1
        /\ Len(merkle_out.proof) = CeilLog2(Len(leaves))
        /\ merkle_out.proof = RefProof(leaves, index)
        /\ Len(leaves) = 1 => merkle_out.proof = <<>>

\* C22 witness: the last of five leaves: its own copy to the right, the copy of its
\* parent to the right, then the root's left child to the left.
C22_Witness ==
    /\ merkle_out.called
    /\ Len(leaves) = 5
    /\ index = 4
    /\ merkle_out.proof =
          << [position |-> "right", hash |-> leaves[5]],
             [position |-> "right", hash |-> sha256_pair(leaves[5], leaves[5])],
             [position |-> "left",
              hash |-> sha256_pair(sha256_pair(leaves[1], leaves[2]),
                                   sha256_pair(leaves[3], leaves[4]))] >>

\* ------------------------------------------------------------------ C26
\* C26: an odd number (3 or more) of leaves and the same leaves with a copy of the
\* last one appended have the same root: the root does not commit to the number of
\* leaves.
C26_LastLeafCopyKeepsRoot ==
    (merkle_out.called /\ Len(leaves) >= 3 /\ Len(leaves) % 2 = 1)
        => /\ WithLastCopied(leaves) # leaves
           /\ merkle_out.root_extended = merkle_out.root

\* C26 witness: five different-looking leaves and the six they are padded to.
C26_Witness ==
    /\ merkle_out.called
    /\ Len(leaves) = 5
    /\ leaves[4] # leaves[5]
    /\ Len(WithLastCopied(leaves)) = 6
    /\ merkle_out.root_extended = merkle_out.root

\* With an even number of leaves the copy changes the root.
EvenLengthCopyChangesRoot ==
    (merkle_out.called /\ Len(leaves) >= 2 /\ Len(leaves) % 2 = 0)
        => merkle_out.root_extended # merkle_out.root

\* ------------------------------------------------------------------ C21
\* C21: verify_proof.py reports a document VALID exactly when verify_merkle_proof of
\* its leaf_hash, merkle_root and proof is True, and it reports the document that
\* get_log_proof returns VALID, the empty proof of a single-record batch included.
C21_VerifierAgrees ==
    verdict.kind # "none" =>
        /\ verdict.report = "VALID" <=> verdict.ok = "True"
        /\ verdict.ok # "none"
              => verdict.ok = verify_merkle_proof(verdict.leaf, verdict.root, verdict.proof)
        /\ verdict.kind = "intact" => verdict.report = "VALID"

\* C21 witness: the document of a single-record batch, whose proof is empty.
C21_Witness ==
    /\ verdict.kind = "intact"
    /\ Len(leaves) = 1
    /\ verdict.proof = <<>>
    /\ verdict.report = "VALID"

\* The verifier also says INVALID, and ends in the ValueError of a bad position.
VerifierRejects ==
    \/ verdict.report = "INVALID" /\ verdict.ok = "False"
    \/ verdict.report = "ValueError" /\ verdict.kind = "position"

\* Every document a successful get_log_proof returns is reported VALID.
ReturnedProofReportedValid ==
    ProofSucceeded
        => main(resp.proof.leaf_hash, resp.proof.merkle_root, resp.proof.proof).report = "VALID"

\* A returned document with an empty proof: the only member of its batch.
EmptyProofReturned ==
    /\ ProofSucceeded
    /\ resp.proof.proof = <<>>

\* ------------------------------------------------------------------ C23
\* The anchor request runs its update: main.py:424-439.
AnchorUpdated == anchor_local.pc = "got_batch" /\ anchor_local'.pc = "idle"

\* C23: an anchor call on a batch that is anchored already answers 200, leaves the
\* status anchored and stores the txid, block hash, block height and block time of
\* the new call in place of the old ones.
C23_ReanchorOverwrites ==
    [][ (/\ AnchorUpdated
         /\ anchor_local.batch_id \in DOMAIN energy_batches
         /\ energy_batches[anchor_local.batch_id].anchor_status = "anchored")
        => LET body == anchor_local.body
               row  == energy_batches'[anchor_local.batch_id]
           IN  /\ resp'.op = "simulate_anchor"
               /\ resp'.status = 200
               /\ resp'.batches = get_batch(energy_batches', anchor_local.batch_id)
               /\ row.anchor_status = "anchored"
               /\ row.anchor_txid =
                     (IF body.txid \in {NoneStr, ""} THEN "simtx" ELSE body.txid)
               /\ row.anchor_block_hash =
                     (IF body.block_hash \in {NoneStr, ""} THEN "simblock" ELSE body.block_hash)
               /\ row.anchor_block_height =
                     (IF body.block_height \in {NoneInt, 0} THEN 100000 ELSE body.block_height)
               /\ row.anchor_block_time = now ]_vars

\* C23 witness: a batch anchored by a call with body {} is anchored again, later, by a
\* call that supplies tx1, bh1 and 7, and holds the new values.
C23_Witness ==
    /\ anchor_local.pc = "idle"
    /\ anchor_local.batch # <<>>
    /\ anchor_local.batch[1].anchor_status = "anchored"
    /\ anchor_local.batch[1].anchor_txid = "simtx"
    /\ anchor_local.batch[1].anchor_block_time < now
    /\ resp.op = "simulate_anchor"
    /\ resp.status = 200
    /\ anchor_local.batch_id \in DOMAIN energy_batches
    /\ LET row == energy_batches[anchor_local.batch_id]
       IN  /\ row.anchor_status = "anchored"
           /\ row.anchor_txid = "tx1"
           /\ row.anchor_block_hash = "bh1"
           /\ row.anchor_block_height = 7
           /\ row.anchor_block_time = now

\* ------------------------------------------------------------------ C24
\* The anchor request returned 200 for a body that supplies all three values.
AnchoredWithSupplied ==
    /\ anchor_local.pc = "idle"
    /\ resp.op = "simulate_anchor"
    /\ resp.status = 200
    /\ anchor_local.body.txid # NoneStr
    /\ anchor_local.body.block_hash # NoneStr
    /\ anchor_local.body.block_height # NoneInt

\* C24: after an anchor call that supplies a txid, a block hash and a block height,
\* the batch holds exactly the supplied values.
C24_SuppliedValuesStored ==
    AnchoredWithSupplied =>
        /\ resp.batches[1].anchor_txid = anchor_local.body.txid
        /\ resp.batches[1].anchor_block_hash = anchor_local.body.block_hash
        /\ resp.batches[1].anchor_block_height = anchor_local.body.block_height

\* Supplied values other than 0 and "" are stored as they are.
TruthyValuesStored ==
    (AnchoredWithSupplied /\ anchor_local.body.block_height # 0) =>
        /\ resp.batches[1].anchor_txid = anchor_local.body.txid
        /\ resp.batches[1].anchor_block_hash = anchor_local.body.block_hash
        /\ resp.batches[1].anchor_block_height = anchor_local.body.block_height

\* ------------------------------------------------------------------ C25
\* The ids of a sequence of records, in order, and as a set.
IdsOf(logs) == [k \in 1..Len(logs) |-> logs[k].id]
IdSetOf(logs) == { logs[k].id : k \in 1..Len(logs) }

\* Flush request w makes its last storage call (set_batch_for_logs) and returns.
Stamps(w) == flush_pc[w] = "saved" /\ flush_pc'[w] = "idle"

\* Flush request w makes its first storage call (get_unbatched_logs) and finds records.
Selects(w) == flush_pc[w] = "idle" /\ flush_pc'[w] = "selected"

\* C25: a flush stamps exactly the records it selected, and they are the log_ids its
\* batch counts; a record ingested between its selection and its stamping keeps no
\* batch id, and the next selection takes every record without a batch id.
C25_StampsWhatItSelected ==
    [][ \A w \in FlushWorkers :
          /\ Stamps(w) =>
                LET batch == flush_local[w].batch
                    sel   == flush_local[w].logs
                IN  /\ batch.log_ids = IdsOf(sel)
                    /\ batch.log_count = Len(sel)
                    /\ resp'.batches = <<batch>>
                    /\ Len(energy_logs') = Len(energy_logs)
                    /\ \A k \in 1..Len(energy_logs) :
                          energy_logs'[k].batch_id =
                            IF energy_logs[k].id \in IdSetOf(sel)
                            THEN batch.id
                            ELSE energy_logs[k].batch_id
          /\ Selects(w) =>
                IdSetOf(flush_local'[w].logs)
                  = { energy_logs[k].id : k \in Unbatched(energy_logs) } ]_vars

\* C25 witness: the flush that returned last counted record 1 only; record 2 was there
\* before it returned (no ingestion has answered since) and has no batch id; the next
\* flush request has selected exactly record 2.
C25_Witness ==
    /\ resp.op = "flush"
    /\ resp.status = 200
    /\ resp.batches[1].log_ids = <<1>>
    /\ Len(energy_logs) = 2
    /\ energy_logs[1].batch_id = resp.batches[1].id
    /\ energy_logs[2].batch_id = NoneInt
    /\ \E w \in FlushWorkers :
          flush_pc[w] = "selected" /\ IdsOf(flush_local[w].logs) = <<2>>

\* ------------------------------------------------------------------ C27
\* Record k has been ingested and has no batch id / has one.
IsUnbatched(k) == Len(energy_logs) >= k /\ energy_logs[k].batch_id = NoneInt
IsBatched(k) == Len(energy_logs) >= k /\ energy_logs[k].batch_id # NoneInt

\* C27: when flush requests keep being made and each runs to completion, every
\* ingested record is eventually assigned to a batch, whatever the interleaving of
\* ingestions and flushes.
C27_EventuallyBatched ==
    \A k \in 1..MaxLogs : IsUnbatched(k) ~> IsBatched(k)

\* C27 witness: every record that can be ingested is batched, the last one by a flush
\* that left record 1 to an earlier one, and no flush request is in flight.
C27_Witness ==
    /\ Len(energy_logs) = MaxLogs
    /\ \A k \in 1..MaxLogs : IsBatched(k)
    /\ \A w \in FlushWorkers : flush_pc[w] = "idle"
    /\ resp.op = "flush"
    /\ resp.status = 200
    /\ resp.batches[1].log_ids = << MaxLogs >>
====
